---- MODULE Spec2Model ----
(***************************************************************************)
(* Model of the FX updater scripts: scripts/update_forex_data.py (fetch    *)
(* with retries, cross rate through USD, indicators and signals, batch     *)
(* loop) and scripts/update_forex_history.py (history and trend            *)
(* prediction).                                                            *)
(*                                                                         *)
(* Closes are exact rationals [n, d] in lowest terms; d = 0 is the float   *)
(* NaN.  Only the exponential moving averages are computed in fixed point  *)
(* (Scale units), because their exact denominators do not fit an integer.  *)
(* The wall-clock "timestamp"/"lastUpdated" output fields are left out.    *)
(***************************************************************************)
EXTENDS Integers, Sequences, FiniteSets, TLC

VARIABLES pc, idx, call, trace, base_hist, quote_hist, hist, saved, input, output

vars == <<pc, idx, call, trace, base_hist, quote_hist, hist, saved, input, output>>

-----------------------------------------------------------------------------
(* Bounds *)

MaxDate == 3

Dates == 1..MaxDate

-----------------------------------------------------------------------------
(* Float arithmetic on closes, as exact rationals with NaN *)

NaN == [n |-> 0, d |-> 0]

IsNaN(x) == x.d = 0

Abs(i) == IF i < 0 THEN -i ELSE i

RECURSIVE GCD(_, _)
GCD(a, b) == IF b = 0 THEN a ELSE GCD(b, a % b)

Rat(n, d) ==
    IF d = 0 THEN NaN
    ELSE LET g == GCD(Abs(n), Abs(d))
             s == IF d < 0 THEN -1 ELSE 1
         IN  [n |-> (s * n) \div g, d |-> (s * d) \div g]

Int2R(i) == [n |-> i, d |-> 1]

RAdd(x, y) == IF IsNaN(x) \/ IsNaN(y) THEN NaN ELSE Rat(x.n * y.d + y.n * x.d, x.d * y.d)

RSub(x, y) == IF IsNaN(x) \/ IsNaN(y) THEN NaN ELSE Rat(x.n * y.d - y.n * x.d, x.d * y.d)

RMul(x, y) == IF IsNaN(x) \/ IsNaN(y) THEN NaN ELSE Rat(x.n * y.n, x.d * y.d)

\* x / y; closes are positive, so a zero divisor (float inf) is never met
\* outside the RSI ratio, whose value is then discarded by the code.
RDiv(x, y) == IF IsNaN(x) \/ IsNaN(y) THEN NaN ELSE Rat(x.n * y.d, x.d * y.n)

RNeg(x) == IF IsNaN(x) THEN NaN ELSE [n |-> -x.n, d |-> x.d]

\* comparisons with NaN are False, and NaN != y is True
RGt(x, y) == ~IsNaN(x) /\ ~IsNaN(y) /\ x.n * y.d > y.n * x.d

RLt(x, y) == ~IsNaN(x) /\ ~IsNaN(y) /\ x.n * y.d < y.n * x.d

RNe(x, y) == IsNaN(x) \/ IsNaN(y) \/ x # y

RAbs(x) == IF IsNaN(x) THEN NaN ELSE [n |-> Abs(x.n), d |-> x.d]

RMin(x, y) == IF RLt(y, x) THEN y ELSE x

\* round(float(x), digits) with p = 10^digits, ties to even
RoundTo(x, p) ==
    IF IsNaN(x) THEN NaN
    ELSE LET q == p * x.n
             f == q \div x.d
             r == 2 * (q - f * x.d)
             h == IF r > x.d THEN f + 1
                  ELSE IF r < x.d THEN f
                  ELSE IF f % 2 = 0 THEN f ELSE f + 1
         IN  Rat(h, p)

Round2(x) == RoundTo(x, 100)

Round1(x) == RoundTo(x, 10)

-----------------------------------------------------------------------------
(* The provider (yfinance) as seen by the scripts *)

Ref == "USD"

\* value of one unit of a currency in USD on a date (noiseless market)
Val(c, t) == CASE c = "USD" -> 1
               [] c = "A" -> t + 1
               [] c = "B" -> 2 * t + 1

\* close of the symbol f"{b}{q}=X" on date t
Quote(sym, t) == Rat(Val(sym[1], t), Val(sym[2], t))

SeqOf(D) ==
    LET F[i \in 0..MaxDate] ==
            IF i = 0 THEN <<>>
            ELSE IF i \in D THEN Append(F[i - 1], i) ELSE F[i - 1]
    IN  F[MaxDate]

\* ticker.history(...): rows in ascending date order
History(sym, D) ==
    LET ds == SeqOf(D)
    IN  [i \in 1..Len(ds) |-> [t |-> ds[i], close |-> Quote(sym, ds[i])]]

None == [some |-> FALSE, rows |-> <<>>]

Frame(rows) == [some |-> TRUE, rows |-> rows]

DatesOf(rows) == {rows[i].t : i \in 1..Len(rows)}

CloseAt(rows, t) ==
    IF t \in DatesOf(rows)
    THEN (CHOOSE r \in {rows[i] : i \in 1..Len(rows)} : r.t = t).close
    ELSE NaN

-----------------------------------------------------------------------------
(* base_rates.json keys, in file order *)

Pairs == << <<"A", "B">>, <<"B", "A">> >>

Sites == {"direct", "base", "base_inv", "quote", "quote_inv"}

-----------------------------------------------------------------------------
(* calculate_signals: indicators *)

Scale == 100000

Closes(rows) == [i \in 1..Len(rows) |-> rows[i].close]

\* sum of c[lo..hi]
RSum(c, lo, hi) ==
    LET F[i \in (lo - 1)..hi] == IF i < lo THEN Int2R(0) ELSE RAdd(F[i - 1], c[i])
    IN  F[hi]

\* c.rolling(window=w).mean().iloc[-1] for a non-empty c: NaN unless the
\* last w entries exist and are all numbers
RollingMeanLast(c, w) ==
    IF Len(c) < w \/ \E i \in (Len(c) - w + 1)..Len(c) : IsNaN(c[i])
    THEN NaN
    ELSE RDiv(RSum(c, Len(c) - w + 1, Len(c)), Int2R(w))

Min(a, b) == IF a < b THEN a ELSE b

\* faulty variant: the window is not shrunk to the series length
MovingAverage_Mut(c, W) == RollingMeanLast(c, W)

\* faulty variant: the window is taken at the head of the series
MovingAverage_Head(c, W) ==
    RollingMeanLast([i \in 1..Min(W, Len(c)) |-> c[i]], Min(W, Len(c)))

\* hist['Close'].rolling(window=min(W, len(hist))).mean().iloc[-1]
MovingAverage(c, W) == RollingMeanLast(c, Min(W, Len(c)))

\* hist['Close'].diff()
Diff(c) == [i \in 1..Len(c) |-> IF i = 1 THEN NaN ELSE RSub(c[i], c[i - 1])]

RsiWindow == 14

RSI(c) ==
    LET delta == Diff(c)
        up    == [i \in 1..Len(c) |-> IF RGt(delta[i], Int2R(0)) THEN delta[i] ELSE Int2R(0)]
        down  == [i \in 1..Len(c) |-> IF RLt(delta[i], Int2R(0)) THEN delta[i] ELSE Int2R(0)]
        gain  == RollingMeanLast(up, RsiWindow)
        loss  == RNeg(RollingMeanLast(down, RsiWindow))
        rs    == RDiv(gain, loss)
    IN  IF RNe(loss, Int2R(0))
        THEN RSub(Int2R(100), RDiv(Int2R(100), RAdd(Int2R(1), rs)))
        ELSE Int2R(50)

\* a number in Scale units, rounded to nearest
ToFixed(x) == (2 * x.n * Scale + x.d) \div (2 * x.d)

\* hist['Close'].ewm(span=N, adjust=False).mean().iloc[-1], in Scale units:
\* y[1] = x[1], y[t] = ((N-1) y[t-1] + 2 x[t]) / (N+1).  Defined for series
\* without NaN.
EMA(c, N) ==
    LET Y[i \in 1..Len(c)] ==
            IF i = 1 THEN ToFixed(c[1])
            ELSE (2 * ((N - 1) * Y[i - 1] + 2 * ToFixed(c[i])) + (N + 1)) \div (2 * (N + 1))
    IN  Y[Len(c)]

MacdMinLen == 26

\* faulty variant: the length test is missing
MACD_Mut(c) == Rat(EMA(c, 12) - EMA(c, 26), Scale)

MACD(c) ==
    IF Len(c) >= MacdMinLen
    THEN Rat(EMA(c, 12) - EMA(c, 26), Scale)
    ELSE Int2R(0)

-----------------------------------------------------------------------------
(* calculate_signals: classification *)

\* faulty variant: the overbought threshold is not strict
SignalShort_Mut(rsi, ma5, ma20) ==
    IF ~RLt(rsi, Int2R(70)) /\ ~IsNaN(rsi) /\ RGt(ma5, ma20) THEN "STRONG_DOWN"
    ELSE IF RLt(rsi, Int2R(30)) /\ RLt(ma5, ma20) THEN "STRONG_UP"
    ELSE IF RGt(ma5, ma20) THEN "DOWN"
    ELSE IF RLt(ma5, ma20) THEN "UP"
    ELSE "FLAT"

SignalShort(rsi, ma5, ma20) ==
    IF RGt(rsi, Int2R(70)) /\ RGt(ma5, ma20) THEN "STRONG_DOWN"
    ELSE IF RLt(rsi, Int2R(30)) /\ RLt(ma5, ma20) THEN "STRONG_UP"
    ELSE IF RGt(ma5, ma20) THEN "DOWN"
    ELSE IF RLt(ma5, ma20) THEN "UP"
    ELSE "FLAT"

SignalLong(macd, ma20, ma60) ==
    IF RGt(macd, Int2R(0)) /\ RGt(ma20, ma60) THEN "STRONG_UP"
    ELSE IF RLt(macd, Int2R(0)) /\ RLt(ma20, ma60) THEN "STRONG_DOWN"
    ELSE IF RGt(macd, Int2R(0)) THEN "UP"
    ELSE IF RLt(macd, Int2R(0)) THEN "DOWN"
    ELSE "FLAT"

Indicators(rows) ==
    LET c == Closes(rows)
    IN  [ma5 |-> MovingAverage(c, 5), ma20 |-> MovingAverage(c, 20),
         ma60 |-> MovingAverage(c, 60), rsi |-> RSI(c), macd |-> MACD(c)]

\* an empty frame makes .iloc[-1] raise; the handler answers SIGNAL_FAILED
calculate_signals(rows) ==
    IF Len(rows) = 0
    THEN [signal_short |-> "SIGNAL_FAILED", signal_long |-> "SIGNAL_FAILED"]
    ELSE LET ind == Indicators(rows)
         IN  [signal_short |-> SignalShort(ind.rsi, ind.ma5, ind.ma20),
              signal_long |-> SignalLong(ind.macd, ind.ma20, ind.ma60)]

-----------------------------------------------------------------------------
(* calculate_cross_rate: composition of the two legs *)

\* faulty variant: the inverse leg is used without taking reciprocals
Invert_Mut(rows) == rows

\* hist['Close'] = 1 / hist['Close']
Invert(rows) == [i \in 1..Len(rows) |-> [t |-> rows[i].t, close |-> RDiv(Int2R(1), rows[i].close)]]

\* base_hist['Close'] * quote_hist['Close']: pandas aligns the two indexes
\* on their sorted union and gives NaN where either side has no row
CrossRates(b, q) ==
    LET ds == SeqOf(DatesOf(b) \cup DatesOf(q))
    IN  [i \in 1..Len(ds) |->
            [t |-> ds[i], close |-> RMul(CloseAt(b, ds[i]), CloseAt(q, ds[i]))]]

-----------------------------------------------------------------------------
(* get_forex_data: the record built once hist is known *)

NoDataRecord(symbol) ==
    [symbol |-> symbol, lastValue |-> Int2R(0), changePercent |-> Int2R(0),
     signal_short |-> "NO_DATA", signal_long |-> "NO_DATA"]

\* faulty variant: a series of two rows is refused
ForexRecord_Mut(symbol, h) ==
    IF h.some /\ Len(h.rows) > 2
    THEN LET c == Closes(h.rows)
             last_close == c[Len(c)]
             prev_close == c[Len(c) - 1]
             change_percent == RMul(RDiv(RSub(last_close, prev_close), prev_close), Int2R(100))
             signals == calculate_signals(h.rows)
         IN  [symbol |-> symbol, lastValue |-> Round2(last_close),
              changePercent |-> Round2(change_percent),
              signal_short |-> signals.signal_short,
              signal_long |-> signals.signal_long]
    ELSE NoDataRecord(symbol)

ForexRecord(symbol, h) ==
    IF h.some /\ Len(h.rows) > 1
    THEN LET c == Closes(h.rows)
             last_close == c[Len(c)]
             prev_close == c[Len(c) - 1]
             change_percent == RMul(RDiv(RSub(last_close, prev_close), prev_close), Int2R(100))
             signals == calculate_signals(h.rows)
         IN  [symbol |-> symbol, lastValue |-> Round2(last_close),
              changePercent |-> Round2(change_percent),
              signal_short |-> signals.signal_short,
              signal_long |-> signals.signal_long]
    ELSE NoDataRecord(symbol)

-----------------------------------------------------------------------------
(* get_ticker_data: one action per outcome of an attempt *)

MaxAttempts == 3

StartCall(site, sym) ==
    [site |-> site, symbol |-> sym, attempt |-> 0, sleeps |-> 0,
     outcomes |-> <<>>, status |-> "running", result |-> None]

\* symbol fetched at each call site of get_ticker_data for the pair <<b, q>>
SiteSymbol(site, pair) ==
    CASE site = "direct"    -> <<pair[1], pair[2]>>
      [] site = "base"      -> <<pair[1], Ref>>
      [] site = "base_inv"  -> <<Ref, pair[1]>>
      [] site = "quote"     -> <<Ref, pair[2]>>
      [] site = "quote_inv" -> <<pair[2], Ref>>

Enter(site) ==
    /\ call' = StartCall(site, SiteSymbol(site, Pairs[idx]))
    /\ trace' = [trace EXCEPT ![site] = [status |-> "running", attempts |-> 0]]

Returned(site) == pc = "fetch" /\ call.status = "returned" /\ call.site = site

\* faulty variant: a single row is accepted
TickerData_Mut ==
    /\ pc = "fetch" /\ call.status = "running" /\ call.attempt < MaxAttempts
    /\ \E D \in SUBSET Dates :
          /\ Cardinality(D) > 0
          /\ call' = [call EXCEPT !.attempt = @ + 1,
                                  !.outcomes = Append(@, IF Cardinality(D) = 1 THEN "single" ELSE "data"),
                                  !.status = "returned",
                                  !.result = Frame(History(call.symbol, D))]
    /\ trace' = [trace EXCEPT ![call.site] = [status |-> "ok", attempts |-> call.attempt + 1]]
    /\ UNCHANGED <<pc, idx, base_hist, quote_hist, hist, saved, input, output>>

\* the attempt's history has more than one row: return it
TickerData ==
    /\ pc = "fetch" /\ call.status = "running" /\ call.attempt < MaxAttempts
    /\ \E D \in SUBSET Dates :
          /\ Cardinality(D) > 1
          /\ call' = [call EXCEPT !.attempt = @ + 1,
                                  !.outcomes = Append(@, "data"),
                                  !.status = "returned",
                                  !.result = Frame(History(call.symbol, D))]
    /\ trace' = [trace EXCEPT ![call.site] = [status |-> "ok", attempts |-> call.attempt + 1]]
    /\ UNCHANGED <<pc, idx, base_hist, quote_hist, hist, saved, input, output>>

\* the attempt's history is empty or has a single row: wait, next attempt
TickerNoData ==
    /\ pc = "fetch" /\ call.status = "running" /\ call.attempt < MaxAttempts
    /\ \E D \in SUBSET Dates :
          /\ Cardinality(D) <= 1
          /\ call' = [call EXCEPT !.attempt = @ + 1,
                                  !.outcomes = Append(@, IF D = {} THEN "empty" ELSE "single"),
                                  !.sleeps = @ + 1,
                                  !.status = IF call.attempt + 1 = MaxAttempts
                                             THEN "returned" ELSE "running"]
    /\ trace' = [trace EXCEPT ![call.site] =
                    [status |-> IF call.attempt + 1 = MaxAttempts THEN "none" ELSE "running",
                     attempts |-> call.attempt + 1]]
    /\ UNCHANGED <<pc, idx, base_hist, quote_hist, hist, saved, input, output>>

\* faulty variant: an exception on the second attempt already gives up
TickerError_Mut ==
    /\ pc = "fetch" /\ call.status = "running" /\ call.attempt < MaxAttempts
    /\ call' = [call EXCEPT !.attempt = @ + 1,
                            !.outcomes = Append(@, "error"),
                            !.sleeps = IF call.attempt < 2 THEN @ + 1 ELSE @,
                            !.status = IF call.attempt + 1 >= 2
                                       THEN "returned" ELSE "running"]
    /\ trace' = [trace EXCEPT ![call.site] =
                    [status |-> IF call.attempt + 1 >= 2 THEN "none" ELSE "running",
                     attempts |-> call.attempt + 1]]
    /\ UNCHANGED <<pc, idx, base_hist, quote_hist, hist, saved, input, output>>

\* the attempt raises: wait unless it was the last one, next attempt
TickerError ==
    /\ pc = "fetch" /\ call.status = "running" /\ call.attempt < MaxAttempts
    /\ call' = [call EXCEPT !.attempt = @ + 1,
                            !.outcomes = Append(@, "error"),
                            !.sleeps = IF call.attempt < 2 THEN @ + 1 ELSE @,
                            !.status = IF call.attempt + 1 = MaxAttempts
                                       THEN "returned" ELSE "running"]
    /\ trace' = [trace EXCEPT ![call.site] =
                    [status |-> IF call.attempt + 1 = MaxAttempts THEN "none" ELSE "running",
                     attempts |-> call.attempt + 1]]
    /\ UNCHANGED <<pc, idx, base_hist, quote_hist, hist, saved, input, output>>

-----------------------------------------------------------------------------
(* main, get_forex_data and calculate_cross_rate: the callers *)

NotCalled == [s \in Sites |-> [status |-> "not_called", attempts |-> 0]]

\* main takes the next pair; get_forex_data starts the direct fetch
ProcessPair ==
    /\ pc = "main" /\ idx < Len(Pairs)
    /\ idx' = idx + 1
    /\ pc' = "fetch"
    /\ call' = StartCall("direct", SiteSymbol("direct", Pairs[idx + 1]))
    /\ trace' = [NotCalled EXCEPT !["direct"] = [status |-> "running", attempts |-> 0]]
    /\ base_hist' = None /\ quote_hist' = None /\ hist' = None
    /\ UNCHANGED <<saved, input, output>>

\* faulty variant: a failed direct fetch is reported without trying the cross rate
DirectReturned_Mut ==
    /\ Returned("direct")
    /\ hist' = call.result
    /\ pc' = "evaluate"
    /\ UNCHANGED <<idx, call, trace, base_hist, quote_hist, saved, input, output>>

\* get_forex_data after the direct fetch: use it, or enter calculate_cross_rate
DirectReturned ==
    /\ Returned("direct")
    /\ IF call.result.some
       THEN /\ hist' = call.result
            /\ pc' = "evaluate"
            /\ UNCHANGED <<call, trace>>
       ELSE /\ Enter("base")
            /\ UNCHANGED <<pc, hist>>
    /\ UNCHANGED <<idx, base_hist, quote_hist, saved, input, output>>

\* calculate_cross_rate after {base}USD=X
BaseReturned ==
    /\ Returned("base")
    /\ IF call.result.some
       THEN /\ base_hist' = call.result
            /\ Enter("quote")
       ELSE /\ Enter("base_inv")
            /\ UNCHANGED base_hist
    /\ UNCHANGED <<pc, idx, quote_hist, hist, saved, input, output>>

\* calculate_cross_rate after USD{base}=X
BaseInvReturned ==
    /\ Returned("base_inv")
    /\ IF call.result.some
       THEN /\ base_hist' = Frame(Invert(call.result.rows))
            /\ Enter("quote")
            /\ UNCHANGED <<pc, hist>>
       ELSE /\ hist' = None
            /\ pc' = "evaluate"
            /\ UNCHANGED <<call, trace, base_hist>>
    /\ UNCHANGED <<idx, quote_hist, saved, input, output>>

\* calculate_cross_rate after USD{quote}=X
QuoteReturned ==
    /\ Returned("quote")
    /\ IF call.result.some
       THEN /\ quote_hist' = call.result
            /\ hist' = Frame(CrossRates(base_hist.rows, call.result.rows))
            /\ pc' = "evaluate"
            /\ UNCHANGED <<call, trace>>
       ELSE /\ Enter("quote_inv")
            /\ UNCHANGED <<pc, quote_hist, hist>>
    /\ UNCHANGED <<idx, base_hist, saved, input, output>>

\* calculate_cross_rate after {quote}USD=X
QuoteInvReturned ==
    /\ Returned("quote_inv")
    /\ IF call.result.some
       THEN /\ quote_hist' = Frame(Invert(call.result.rows))
            /\ hist' = Frame(CrossRates(base_hist.rows, Invert(call.result.rows)))
       ELSE /\ hist' = None
            /\ UNCHANGED quote_hist
    /\ pc' = "evaluate"
    /\ UNCHANGED <<idx, call, trace, base_hist, saved, input, output>>

\* faulty variant: a pair that failed entirely ends the batch
Evaluate_Mut ==
    /\ pc = "evaluate"
    /\ saved' = Append(saved, ForexRecord(Pairs[idx], hist))
    /\ pc' = IF idx < Len(Pairs) /\ hist.some THEN "main" ELSE "done"
    /\ UNCHANGED <<idx, call, trace, base_hist, quote_hist, hist, input, output>>

\* get_forex_data builds the record (or the NO_DATA record); main saves it
Evaluate ==
    /\ pc = "evaluate"
    /\ saved' = Append(saved, ForexRecord(Pairs[idx], hist))
    /\ pc' = IF idx < Len(Pairs) THEN "main" ELSE "done"
    /\ UNCHANGED <<idx, call, trace, base_hist, quote_hist, hist, input, output>>

Init ==
    /\ pc = "main" /\ idx = 0
    /\ call = StartCall("direct", <<Ref, Ref>>)
    /\ trace = NotCalled
    /\ base_hist = None /\ quote_hist = None /\ hist = None
    /\ saved = <<>>
    /\ input = <<>> /\ output = <<>>

Next ==
    \/ ProcessPair
    \/ TickerData
    \/ TickerNoData
    \/ TickerError
    \/ DirectReturned
    \/ BaseReturned
    \/ BaseInvReturned
    \/ QuoteReturned
    \/ QuoteInvReturned
    \/ Evaluate

Spec == Init /\ [][Next]_vars

-----------------------------------------------------------------------------
(* Claims about the pipeline (specification Spec) *)

\* the record of the current pair has been produced
Evaluated == idx >= 1 /\ Len(saved) = idx

LegAvailable(first, inverse) == trace[first].status = "ok" \/ trace[inverse].status = "ok"

LegUnavailable(first, inverse) == trace[first].status = "none" /\ trace[inverse].status = "none"

DirectFailed == trace["direct"].status = "none"

CrossFailed == LegUnavailable("base", "base_inv") \/ LegUnavailable("quote", "quote_inv")

PipelineFailed == DirectFailed /\ CrossFailed

\* calculate_cross_rate has composed hist from the two legs
CrossComposed == DirectFailed /\ base_hist.some /\ quote_hist.some /\ hist.some

SharedDates == DatesOf(base_hist.rows) \cap DatesOf(quote_hist.rows)

ComputedSignals == {"STRONG_UP", "UP", "DOWN", "STRONG_DOWN", "FLAT", "SIGNAL_FAILED"}

\* C1: once get_forex_data has returned for a pair, its record is the NO_DATA
\* record (lastValue 0.0, changePercent 0.0, both signals NO_DATA) exactly
\* when the direct fetch was exhausted and calculate_cross_rate returned
\* None; a record is always produced, and a record built from an obtained
\* series carries computed signals, never NO_DATA.
C1_NoDataIffPipelineFailed ==
    /\ pc \in {"main", "done"} => Len(saved) = idx
    /\ Evaluated =>
          LET r == saved[idx]
          IN  /\ PipelineFailed <=> r = NoDataRecord(Pairs[idx])
              /\ PipelineFailed <=> ~hist.some
              /\ ~PipelineFailed =>
                    /\ r.signal_short \in ComputedSignals
                    /\ r.signal_long \in ComputedSignals

C1_Witness ==
    /\ Evaluated /\ PipelineFailed
    /\ saved[idx].signal_short = "NO_DATA" /\ saved[idx].lastValue = Int2R(0)

\* C2: a leg symbol is fetched only when the direct fetch has returned None
\* after all its attempts; after a successful direct fetch no leg is fetched;
\* and no failure is reported for a pair before the resolver has been tried.
C2_CrossOnlyAfterDirectFailed ==
    /\ \A s \in Sites \ {"direct"} :
          trace[s].status # "not_called" =>
              /\ trace["direct"].status = "none"
              /\ trace["direct"].attempts = MaxAttempts
    /\ trace["direct"].status = "ok" =>
          \A s \in Sites \ {"direct"} : trace[s].status = "not_called"
    /\ (pc = "evaluate" /\ ~hist.some) => trace["base"].status \in {"ok", "none"}
    /\ (Evaluated /\ saved[idx].signal_short = "NO_DATA") =>
          trace["base"].status \in {"ok", "none"}

C2_Witness ==
    /\ trace["direct"].status = "none"
    /\ trace["base"].status = "running"
    /\ call.site = "base" /\ call.attempt = 1

\* C3: a get_ticker_data call makes at most 3 attempts and at most 3 waits;
\* it returns a series at the first attempt whose result is usable, and
\* returns None only after 3 attempts none of which was usable.
C3_TickerBounded ==
    /\ call.attempt <= 3 /\ Len(call.outcomes) = call.attempt
    /\ call.sleeps <= 3
    /\ \A i \in 1..Len(call.outcomes) :
          call.outcomes[i] = "data" =>
              i = Len(call.outcomes) /\ call.status = "returned" /\ call.result.some
    /\ (call.status = "returned" /\ call.result.some) =>
          call.outcomes[Len(call.outcomes)] = "data"
    /\ (call.status = "returned" /\ ~call.result.some) =>
          /\ call.attempt = 3
          /\ \A i \in 1..3 : call.outcomes[i] # "data"
    /\ call.status = "running" => call.attempt < 3
    /\ \A s \in Sites : trace[s].status = "none" => trace[s].attempts = 3

C3_Witness ==
    /\ call.status = "returned" /\ ~call.result.some
    /\ call.attempt = 3 /\ call.sleeps = 3

\* C4 (as claimed): the composed series has exactly the timestamps present in
\* both legs, and its close at each of them is (base/REF) / (quote/REF).
C4_CrossIsIntersection ==
    CrossComposed =>
        /\ DatesOf(hist.rows) = SharedDates
        /\ Len(hist.rows) = Cardinality(SharedDates)
        /\ \A i \in 1..Len(hist.rows) :
              hist.rows[i].close =
                  RDiv(Quote(<<Pairs[idx][1], Ref>>, hist.rows[i].t),
                       Quote(<<Pairs[idx][2], Ref>>, hist.rows[i].t))

\* C5 (as claimed): after a failed direct fetch the pair ends as NO_DATA
\* exactly when a leg is unavailable in both orientations or the legs share
\* fewer than 2 timestamps.
C5_CrossFailsOnShortIntersection ==
    (Evaluated /\ DirectFailed) =>
        (saved[idx] = NoDataRecord(Pairs[idx])
            <=> (CrossFailed \/ Cardinality(SharedDates) < 2))

\* C6: the inverse symbol of a leg is fetched only after its first
\* orientation returned None; a leg obtained in either orientation holds the
\* closes of the orientation the resolver composes with (base/REF, REF/quote),
\* the resolver then yields a series, and at every date both legs have, the
\* composed close is the base/quote rate.
C6_InverseLegEquivalent ==
    /\ trace["base_inv"].status # "not_called" => trace["base"].status = "none"
    /\ trace["quote_inv"].status # "not_called" => trace["quote"].status = "none"
    /\ base_hist.some =>
          \A i \in 1..Len(base_hist.rows) :
              base_hist.rows[i].close = Quote(<<Pairs[idx][1], Ref>>, base_hist.rows[i].t)
    /\ quote_hist.some =>
          \A i \in 1..Len(quote_hist.rows) :
              quote_hist.rows[i].close = Quote(<<Ref, Pairs[idx][2]>>, quote_hist.rows[i].t)
    /\ (pc \in {"evaluate", "main", "done"} /\ DirectFailed
          /\ LegAvailable("base", "base_inv") /\ LegAvailable("quote", "quote_inv")) =>
          CrossComposed
    /\ CrossComposed =>
          \A t \in SharedDates : CloseAt(hist.rows, t) = Quote(Pairs[idx], t)

C6_Witness ==
    /\ CrossComposed
    /\ trace["base_inv"].status = "ok" /\ trace["quote_inv"].status = "ok"
    /\ Cardinality(SharedDates) >= 2

\* C7 (as claimed): a direct fetch attempt whose series is non-empty, even a
\* single sample, ends the fetch with that series.
C7_AnyNonEmptySeriesIsSuccess ==
    call.site = "direct" =>
        \A i \in 1..Len(call.outcomes) :
            call.outcomes[i] \in {"single", "data"} =>
                i = Len(call.outcomes) /\ call.status = "returned" /\ call.result.some

\* C7 (amended): a direct fetch attempt ends the fetch with its series exactly
\* when the series has at least 2 samples; an empty or single-sample result is
\* a failed attempt.  A pair whose direct fetch succeeded gets a record
\* computed from that series, with computed signals and not NO_DATA.
C7_TwoSamplesIsSuccess ==
    /\ call.site = "direct" =>
          /\ \A i \in 1..Len(call.outcomes) :
                call.outcomes[i] \in {"empty", "single", "error"} =>
                    (i < Len(call.outcomes) \/ ~call.result.some)
          /\ call.result.some => Len(call.result.rows) >= 2
    /\ (Evaluated /\ trace["direct"].status = "ok") =>
          LET r == saved[idx]
              c == Closes(hist.rows)
          IN  /\ Len(c) >= 2
              /\ r.lastValue = Round2(c[Len(c)])
              /\ r.signal_short \in ComputedSignals \ {"SIGNAL_FAILED"}
              /\ r.signal_long \in ComputedSignals \ {"SIGNAL_FAILED"}

C7_Witness ==
    /\ Evaluated /\ trace["direct"].status = "ok" /\ trace["direct"].attempts = 3
    /\ Len(hist.rows) = 2
    /\ saved[idx].signal_short = "FLAT"

BatchInv ==
    /\ idx <= Len(Pairs)
    /\ Len(saved) <= idx /\ Len(saved) >= idx - 1
    /\ \A i \in 1..Len(saved) : saved[i].symbol = Pairs[i]
    /\ pc = "done" => Len(saved) = Len(Pairs)
    /\ (Evaluated /\ PipelineFailed) =>
          /\ saved[idx] = NoDataRecord(Pairs[idx])
          /\ idx < Len(Pairs) => pc = "main"

SiteOrder(site) ==
    CASE site = "direct" -> 0 [] site = "base" -> 1 [] site = "base_inv" -> 2
      [] site = "quote" -> 3 [] site = "quote_inv" -> 4

\* position of the batch: grows with every step and is bounded
Rank ==
    100 * idx +
    (CASE pc = "fetch" ->
              1 + 8 * SiteOrder(call.site) + 2 * call.attempt
                + (IF call.status = "returned" THEN 1 ELSE 0)
       [] pc = "evaluate" -> 50
       [] OTHER -> 60)

\* some action of Next has its guard true
CanStep ==
    \/ pc = "main" /\ idx < Len(Pairs)
    \/ pc = "fetch" /\ call.status = "running" /\ call.attempt < MaxAttempts
    \/ pc = "fetch" /\ call.status = "returned" /\ call.site \in Sites
    \/ pc = "evaluate"

Progress == Rank' > Rank /\ Rank' <= 100 * Len(Pairs) + 60

\* C14: the batch loop takes the pairs once each and in order and saves
\* exactly one record per pair; a pair that failed entirely gets its NO_DATA
\* record and the loop goes on to the next pair; the batch completes: before
\* the last record is saved a step is always possible, and every step
\* advances a bounded position.
C14_BatchCompletes ==
    /\ [](BatchInv /\ (pc # "done" => CanStep))
    /\ [][Progress]_vars

C14_Witness ==
    /\ pc = "done" /\ Len(saved) = 2
    /\ saved[1] = NoDataRecord(Pairs[1])
    /\ saved[2].signal_short # "NO_DATA"

-----------------------------------------------------------------------------
(* Input series for the specifications of the pure functions *)

MaxLen == 62

Levels == {1, 3, 4}

\* lengths of the run of hi closes before the last close
Runs == {0, 1, 4, 9, 13, 30}

\* L closes in date order: lo, ..., lo, then k times hi, then last
Series(L, k, lo, hi, last) ==
    [i \in 1..L |->
        [t |-> i,
         close |-> Int2R(IF i = L THEN last ELSE IF i >= L - k THEN hi ELSE lo)]]

SeriesInputs ==
    {Series(L, k, lo, hi, last) :
        L \in 0..MaxLen, k \in Runs, lo \in Levels, hi \in Levels, last \in Levels}

Idle ==
    /\ idx = 0
    /\ call = StartCall("direct", <<Ref, Ref>>)
    /\ trace = NotCalled
    /\ base_hist = None /\ quote_hist = None /\ hist = None
    /\ saved = <<>>

-----------------------------------------------------------------------------
(* Specification SpecSignals: calculate_signals applied to a series *)

InitSignals ==
    /\ Idle
    /\ pc = "signals"
    /\ input \in SeriesInputs
    /\ output = <<>>

ApplySignals ==
    /\ pc = "signals"
    /\ output' = [ind |-> IF Len(input) = 0 THEN <<>> ELSE Indicators(input),
                  signals |-> calculate_signals(input)]
    /\ pc' = "signals_done"
    /\ UNCHANGED <<idx, call, trace, base_hist, quote_hist, hist, saved, input>>

NextSignals == ApplySignals

SpecSignals == InitSignals /\ [][NextSignals]_vars

\* C9 (as claimed): an average whose window exceeds the series length is
\* absent, every series shorter than 60 samples has long signal FLAT and
\* every series shorter than 20 samples has short signal FLAT.
C9_AbsentAverageIsFlat ==
    (pc = "signals_done" /\ Len(input) >= 2) =>
        /\ Len(input) < 60 =>
              IsNaN(output.ind.ma60) /\ output.signals.signal_long = "FLAT"
        /\ Len(input) < 20 =>
              IsNaN(output.ind.ma20) /\ output.signals.signal_short = "FLAT"

MeanOfAll(c) == RDiv(RSum(c, 1, Len(c)), Int2R(Len(c)))

\* C9 (amended): an average whose window exceeds the series length is not
\* absent but is the mean of all samples; the long signal is FLAT for every
\* series shorter than 26 samples and the short signal is FLAT for every
\* series of at most 5 samples.
C9_ShrunkAverages ==
    (pc = "signals_done" /\ Len(input) >= 1) =>
        LET c == Closes(input)
        IN  /\ Len(c) < 60 => output.ind.ma60 = MeanOfAll(c)
            /\ Len(c) < 20 => output.ind.ma20 = MeanOfAll(c)
            /\ Len(c) < 5 => output.ind.ma5 = MeanOfAll(c)
            /\ ~IsNaN(output.ind.ma5) /\ ~IsNaN(output.ind.ma20) /\ ~IsNaN(output.ind.ma60)
            /\ Len(c) < 26 => output.signals.signal_long = "FLAT"
            /\ Len(c) <= 5 => output.signals.signal_short = "FLAT"

C9_Witness ==
    /\ pc = "signals_done" /\ Len(input) = 19
    /\ output.ind.ma20 = MeanOfAll(Closes(input))
    /\ output.signals.signal_short = "STRONG_DOWN"
    /\ output.signals.signal_long = "FLAT"

\* the closes never fall over the steps the RSI window covers
NoLossInWindow(c) ==
    \A i \in 2..Len(c) : i > Len(c) - RsiWindow => ~RLt(c[i], c[i - 1])

\* C12 (as claimed): for every series of at least 2 samples the RSI is a
\* number between 0 and 100, and it is 50 exactly when the average loss over
\* the RSI window is 0.
C12_RsiInRange ==
    (pc = "signals_done" /\ Len(input) >= 2) =>
        /\ ~IsNaN(output.ind.rsi)
        /\ ~RLt(output.ind.rsi, Int2R(0)) /\ ~RGt(output.ind.rsi, Int2R(100))
        /\ output.ind.rsi = Int2R(50) <=> NoLossInWindow(Closes(input))

AllEqual(c) == \A i \in 1..Len(c) : c[i] = c[1]

NonDecreasing(c) == \A i \in 2..Len(c) : ~RLt(c[i], c[i - 1])

NonIncreasing(c) == \A i \in 2..Len(c) : ~RGt(c[i], c[i - 1])

\* C13 (as claimed): MACD is 0 exactly when the series has fewer than 26
\* samples.
C13_MacdZeroIffShort ==
    (pc = "signals_done" /\ Len(input) >= 1) =>
        (output.ind.macd = Int2R(0) <=> Len(input) < 26)

\* C13 (amended): MACD is 0 for every series shorter than 26 samples; for a
\* series of 26 or more samples it is the computed EMA12 - EMA26, which is 0
\* for identical closes, positive for a rising and negative for a falling
\* series.
C13_MacdZeroWhenShort ==
    (pc = "signals_done" /\ Len(input) >= 1) =>
        LET c == Closes(input)
        IN  /\ Len(c) < 26 => output.ind.macd = Int2R(0)
            /\ (Len(c) >= 26 /\ AllEqual(c)) => output.ind.macd = Int2R(0)
            /\ (Len(c) >= 26 /\ NonDecreasing(c) /\ ~AllEqual(c)) =>
                  RGt(output.ind.macd, Int2R(0))
            /\ (Len(c) >= 26 /\ NonIncreasing(c) /\ ~AllEqual(c)) =>
                  RLt(output.ind.macd, Int2R(0))

C13_Witness ==
    /\ pc = "signals_done" /\ Len(input) = 60 /\ AllEqual(Closes(input))
    /\ output.ind.macd = Int2R(0)
    /\ output.ind.rsi = Int2R(50)
    /\ output.signals.signal_short = "FLAT" /\ output.signals.signal_long = "FLAT"

\* integer sum of the last n closes of a series of whole closes
RECURSIVE TailSum(_, _)
TailSum(c, n) == IF n = 0 THEN 0 ELSE c[Len(c) + 1 - n].n + TailSum(c, n - 1)

\* C15: for W in {5, 20, 60} and a series of L >= 1 closes, the moving
\* average is the arithmetic mean of the last W closes when L >= W and the
\* mean of all L closes when L < W.
C15_MovingAverageIsTailMean ==
    (pc = "signals_done" /\ Len(input) >= 1) =>
        LET c == Closes(input)
            L == Len(c)
            Mean(W) == IF L >= W THEN Rat(TailSum(c, W), W) ELSE Rat(TailSum(c, L), L)
        IN  /\ output.ind.ma5 = Mean(5)
            /\ output.ind.ma20 = Mean(20)
            /\ output.ind.ma60 = Mean(60)

C15_Witness ==
    /\ pc = "signals_done" /\ Len(input) = 61
    /\ RGt(output.ind.ma5, output.ind.ma20) /\ RGt(output.ind.ma20, output.ind.ma60)

-----------------------------------------------------------------------------
(* Specification SpecClassify: the signal rules applied to indicator values *)

RsiValues == {NaN} \cup {Int2R(v) : v \in {0, 29, 30, 31, 50, 69, 70, 71, 100}}

MaValues == {NaN, Int2R(1), Rat(3, 2), Int2R(2)}

MacdValues == {Rat(-1, 2), Int2R(0), Rat(1, 2)}

InitClassify ==
    /\ Idle
    /\ pc = "classify"
    /\ input \in [rsi : RsiValues, ma5 : MaValues, ma20 : MaValues, ma60 : MaValues,
                  macd : MacdValues]
    /\ output = <<>>

Classify ==
    /\ pc = "classify"
    /\ output' = [signal_short |-> SignalShort(input.rsi, input.ma5, input.ma20),
                  signal_long |-> SignalLong(input.macd, input.ma20, input.ma60)]
    /\ pc' = "classified"
    /\ UNCHANGED <<idx, call, trace, base_hist, quote_hist, hist, saved, input>>

NextClassify == Classify

SpecClassify == InitClassify /\ [][NextClassify]_vars

\* the precedence tables of the claim: rule number -> condition, signal
ShortRule(i, s) ==
    CASE i = 1 -> RGt(s.rsi, Int2R(70)) /\ RGt(s.ma5, s.ma20)
      [] i = 2 -> RLt(s.rsi, Int2R(30)) /\ RLt(s.ma5, s.ma20)
      [] i = 3 -> RGt(s.ma5, s.ma20)
      [] i = 4 -> RLt(s.ma5, s.ma20)
      [] i = 5 -> TRUE

ShortLabels == <<"STRONG_DOWN", "STRONG_UP", "DOWN", "UP", "FLAT">>

LongRule(i, s) ==
    CASE i = 1 -> RGt(s.macd, Int2R(0)) /\ RGt(s.ma20, s.ma60)
      [] i = 2 -> RLt(s.macd, Int2R(0)) /\ RLt(s.ma20, s.ma60)
      [] i = 3 -> RGt(s.macd, Int2R(0))
      [] i = 4 -> RLt(s.macd, Int2R(0))
      [] i = 5 -> TRUE

LongLabels == <<"STRONG_UP", "STRONG_DOWN", "UP", "DOWN", "FLAT">>

FirstMatch(R(_, _), s) == CHOOSE i \in 1..5 : R(i, s) /\ \A j \in 1..(i - 1) : ~R(j, s)

\* C8: for every indicator snapshot the short and long signals are those of
\* the first matching rule of the precedence tables (strict comparisons), a
\* signal is produced for every input, and RSI exactly 70 or exactly 30
\* never selects a STRONG short rule.
C8_FirstMatchWins ==
    pc = "classified" =>
        /\ output.signal_short = ShortLabels[FirstMatch(ShortRule, input)]
        /\ output.signal_long = LongLabels[FirstMatch(LongRule, input)]
        /\ input.rsi = Int2R(70) => output.signal_short # "STRONG_DOWN"
        /\ input.rsi = Int2R(30) => output.signal_short # "STRONG_UP"

C8_Witness ==
    /\ pc = "classified"
    /\ input.rsi = Int2R(70) /\ RGt(input.ma5, input.ma20)
    /\ output.signal_short = "DOWN"
    /\ output.signal_long = "STRONG_UP"

-----------------------------------------------------------------------------
(* update_forex_history.py: calculate_trend_prediction and get_forex_history *)

Reverse(q) == [i \in 1..Len(q) |-> q[Len(q) + 1 - i]]

\* numpy closes[-k]; k > len(closes) raises IndexError
FromEnd(c, k) == c[Len(c) + 1 - k]

Direction(change, threshold) ==
    IF RGt(change, Int2R(threshold)) THEN "UP"
    ELSE IF RLt(change, Int2R(-threshold)) THEN "DOWN"
    ELSE "FLAT"

PercentChange(new, old) == RMul(RDiv(RSub(new, old), old), Int2R(100))

\* the rows are taken in the order the caller passes them
calculate_trend_prediction(rows) ==
    LET closes == Closes(rows)
    IN  IF Len(closes) < 60
        THEN [raised |-> TRUE]
        ELSE LET short_term_change == PercentChange(FromEnd(closes, 1), FromEnd(closes, 10))
                 long_term_change == PercentChange(FromEnd(closes, 1), FromEnd(closes, 60))
             IN  [raised |-> FALSE,
                  short_term |->
                      [direction |-> Direction(short_term_change, 1),
                       confidence |-> Round1(RMin(RMul(RAbs(short_term_change), Int2R(10)),
                                                  Int2R(100)))],
                  long_term |->
                      [direction |-> Direction(long_term_change, 2),
                       confidence |-> Round1(RMin(RMul(RAbs(long_term_change), Int2R(5)),
                                                  Int2R(100)))]]

UnknownForecast == [direction |-> "UNKNOWN", confidence |-> Int2R(0)]

HistoryFailure == [rates |-> <<>>, short_term |-> UnknownForecast, long_term |-> UnknownForecast]

\* faulty variant: the rates are not put back in date order
get_forex_history_Mut(rows, days) ==
    IF Len(rows) = 0
    THEN HistoryFailure
    ELSE LET sorted == Reverse(rows)
             trend_data == calculate_trend_prediction(sorted)
             count == Min(days, Len(sorted))
             daily_rates == [i \in 1..count |->
                                [rate |-> Round2(sorted[i].close), timestamp |-> sorted[i].t]]
         IN  IF trend_data.raised
             THEN HistoryFailure
             ELSE [rates |-> daily_rates,
                   short_term |-> trend_data.short_term,
                   long_term |-> trend_data.long_term]

\* rows: the fetched history in ascending date order
get_forex_history(rows, days) ==
    IF Len(rows) = 0
    THEN HistoryFailure
    ELSE LET sorted == Reverse(rows)
             trend_data == calculate_trend_prediction(sorted)
             count == Min(days, Len(sorted))
             daily_rates == [i \in 1..count |->
                                [rate |-> Round2(sorted[i].close), timestamp |-> sorted[i].t]]
         IN  IF trend_data.raised
             THEN HistoryFailure
             ELSE [rates |-> Reverse(daily_rates),
                   short_term |-> trend_data.short_term,
                   long_term |-> trend_data.long_term]

DaysChoices == {2, 150}

InitHistory ==
    /\ Idle
    /\ pc = "history"
    /\ input \in [rows : SeriesInputs, days : DaysChoices]
    /\ output = <<>>

GetHistory ==
    /\ pc = "history"
    /\ output' = get_forex_history(input.rows, input.days)
    /\ pc' = "history_done"
    /\ UNCHANGED <<idx, call, trace, base_hist, quote_hist, hist, saved, input>>

NextHistory == GetHistory

SpecHistory == InitHistory /\ [][NextHistory]_vars

\* C10 (as claimed): for a series long enough for both horizons, the short
\* forecast is the direction of the change from the close 10 samples before
\* the latest to the latest close (thresholds +-1%), the long forecast that
\* of the change from the close 60 samples before the latest (+-2%).
C10_TrendFromLatestClose ==
    (pc = "history_done" /\ Len(input.rows) >= 61) =>
        LET c == Closes(input.rows)
            latest == c[Len(c)]
        IN  /\ output.short_term.direction =
                   Direction(PercentChange(latest, c[Len(c) - 10]), 1)
            /\ output.long_term.direction =
                   Direction(PercentChange(latest, c[Len(c) - 60]), 2)

\* C11 (as claimed): with fewer than 11 samples the short forecast is UNKNOWN
\* with confidence 0, with fewer than 61 samples the long forecast is UNKNOWN
\* with confidence 0, and a series of 11 to 60 samples still gets a computed
\* short forecast and its rates.
C11_PerHorizonDegradation ==
    (pc = "history_done" /\ Len(input.rows) >= 1) =>
        /\ Len(input.rows) < 11 => output.short_term = UnknownForecast
        /\ Len(input.rows) < 61 => output.long_term = UnknownForecast
        /\ (Len(input.rows) >= 11 /\ Len(input.rows) <= 60) =>
              /\ output.short_term.direction \in {"UP", "DOWN", "FLAT"}
              /\ output.rates # <<>>

\* C18: on success the rates are the min(days, length) most recent samples of
\* the fetched series, in strictly ascending timestamp order.
C18_RatesAreRecentAscending ==
    (pc = "history_done" /\ output.rates # <<>>) =>
        LET n == Len(output.rates)
            L == Len(input.rows)
        IN  /\ n <= input.days
            /\ n = Min(input.days, L)
            /\ \A i \in 1..n :
                  /\ output.rates[i].timestamp = input.rows[L - n + i].t
                  /\ output.rates[i].rate = Round2(input.rows[L - n + i].close)
            /\ \A i \in 1..(n - 1) :
                  output.rates[i].timestamp < output.rates[i + 1].timestamp

C18_Witness ==
    /\ pc = "history_done" /\ input.days = 2 /\ Len(input.rows) = 62
    /\ Len(output.rates) = 2
    /\ output.rates[1].timestamp = 61 /\ output.rates[2].timestamp = 62

-----------------------------------------------------------------------------
(* fx_updater.py: calculate_moving_average and get_predictions *)

Max(a, b) == IF a > b THEN a ELSE b

\* data[start:stop] of a Python list: a negative bound counts from the end,
\* both bounds are clamped to the list, an empty range gives the empty list
PySlice(data, start, stop) ==
    LET n == Len(data)
        s == IF start < 0 THEN Max(n + start, 0) ELSE Min(start, n)
        e == IF stop < 0 THEN Max(n + stop, 0) ELSE Min(stop, n)
    IN  SubSeq(data, s + 1, e)

\* the value of calculate_moving_average(data, window), or the exception it
\* raises: sum(window_slice) / window divides by the integer window
calculate_moving_average(data, window) ==
    IF Len(data) < window
    THEN [raised |-> "", values |-> <<>>]
    ELSE IF window = 0
         THEN [raised |-> "ZeroDivisionError", values |-> <<>>]
         ELSE [raised |-> "",
               values |->
                   [i \in 1..(Len(data) - window + 1) |->
                       LET window_slice == PySlice(data, i - 1, i - 1 + window)
                       IN  RDiv(RSum(window_slice, 1, Len(window_slice)),
                                Int2R(window))]]

short_window == 5

medium_window == 20

\* faulty variant of long_window: the long window is the medium one
long_window_Mut == medium_window

long_window == 60

\* sorted(keys): the timestamps in ascending order
RECURSIVE Sorted(_)
Sorted(S) ==
    IF S = {} THEN <<>>
    ELSE LET m == CHOOSE x \in S : \A y \in S : x <= y
         IN  <<m>> \o Sorted(S \ {m})

\* the tuple (None, None, None, None)
AllNone ==
    [is_none |-> TRUE, latest_rate |-> NaN, short_term_prediction |-> "None",
     long_term_prediction |-> "None", latest_timestamp |-> 0]

Prediction(rate, short, long, ts) ==
    [is_none |-> FALSE, latest_rate |-> rate, short_term_prediction |-> short,
     long_term_prediction |-> long, latest_timestamp |-> ts]

\* get_predictions on the value raw_data returned by fetch_fx_data: None, or
\* a dict from timestamp to sample.  A sample's '4. close' is a number, is
\* absent (KeyError) or is not a number (ValueError).
get_predictions(raw_data) ==
    IF ~raw_data.some \/ DOMAIN raw_data.series = {}
    THEN AllNone
    ELSE
    LET timestamps == Sorted(DOMAIN raw_data.series)
        kept == SelectSeq(timestamps,
                          LAMBDA ts : raw_data.series[ts].kind = "num")
        closing_prices == [i \in 1..Len(kept) |-> raw_data.series[kept[i]].close]
    IN
    IF Len(timestamps) = 0 \/ Len(closing_prices) = 0
    THEN AllNone
    ELSE
    LET latest_rate == closing_prices[Len(closing_prices)]
        latest_timestamp == timestamps[Len(timestamps)]
        ma_short_series == calculate_moving_average(closing_prices, short_window).values
        ma_medium_series == calculate_moving_average(closing_prices, medium_window).values
        ma_long_series == calculate_moving_average(closing_prices, long_window).values
    IN
    IF Len(ma_short_series) = 0 \/ Len(ma_medium_series) = 0
          \/ Len(ma_long_series) = 0
    THEN Prediction(latest_rate, "NEUTRAL", "NEUTRAL", latest_timestamp)
    ELSE
    LET latest_ma_short == ma_short_series[Len(ma_short_series)]
        latest_ma_medium == ma_medium_series[Len(ma_medium_series)]
        latest_ma_long == ma_long_series[Len(ma_long_series)]
        short_term_prediction ==
            IF RGt(latest_ma_short, latest_ma_medium) THEN "UP"
            ELSE IF RLt(latest_ma_short, latest_ma_medium) THEN "DOWN"
            ELSE "NEUTRAL"
        long_term_prediction ==
            IF RGt(latest_ma_medium, latest_ma_long) THEN "UP"
            ELSE IF RLt(latest_ma_medium, latest_ma_long) THEN "DOWN"
            ELSE "NEUTRAL"
    IN  Prediction(latest_rate, short_term_prediction, long_term_prediction,
                   latest_timestamp)

-----------------------------------------------------------------------------
(* Specification SpecMA: calculate_moving_average applied to a list *)

MaxData == 3

DataValues == {1, 2, 3}

Windows == (0 - 2)..(MaxData + 1)

DataInputs ==
    UNION {[1..n -> {Int2R(v) : v \in DataValues}] : n \in 0..MaxData}

InitMA ==
    /\ Idle
    /\ pc = "ma"
    /\ input \in [data : DataInputs, window : Windows]
    /\ output = <<>>

ApplyMA ==
    /\ pc = "ma"
    /\ output' = calculate_moving_average(input.data, input.window)
    /\ pc' = "ma_done"
    /\ UNCHANGED <<idx, call, trace, base_hist, quote_hist, hist, saved, input>>

NextMA == ApplyMA

SpecMA == InitMA /\ [][NextMA]_vars

\* C17 (as claimed): a non-positive window never yields averages: window 0 on
\* non-empty data raises ZeroDivisionError, and any negative window returns
\* the empty list.
C17_NonPositiveWindowGivesNoAverages ==
    (pc = "ma_done" /\ input.window <= 0) =>
        /\ output.values = <<>>
        /\ (input.window = 0 /\ input.data # <<>>) =>
              output.raised = "ZeroDivisionError"
        /\ input.window < 0 => output.raised = ""

-----------------------------------------------------------------------------
(* Specification SpecPredict: get_predictions applied to a fetch result *)

PredictRuns == {0, 3, 30}

PredictShapes == {<<1, 1>>, <<1, 2>>, <<2, 1>>}

Gaps == {"none", "last_missing", "last_bad", "first_missing", "all_missing",
         "all_bad"}

\* the sample at position i of N under a gap pattern
SampleKind(i, N, gap) ==
    CASE gap = "last_missing" /\ i = N -> "missing"
      [] gap = "last_bad" /\ i = N -> "bad"
      [] gap = "first_missing" /\ i = 1 -> "missing"
      [] gap = "all_missing" -> "missing"
      [] gap = "all_bad" -> "bad"
      [] OTHER -> "num"

\* N samples keyed by timestamp: lo, ..., lo, then k times hi
TimeSeries(N, k, shape, gap) ==
    [ts \in 1..N |->
        [kind |-> SampleKind(ts, N, gap),
         close |-> Int2R(IF ts > N - k THEN shape[2] ELSE shape[1])]]

FetchResults ==
    {[some |-> FALSE, series |-> <<>>]}
        \cup {[some |-> TRUE, series |-> TimeSeries(N, k, shape, gap)] :
                 N \in 0..MaxLen, k \in PredictRuns, shape \in PredictShapes,
                 gap \in Gaps}

InitPredict ==
    /\ Idle
    /\ pc = "predict"
    /\ input \in FetchResults
    /\ output = <<>>

Predict ==
    /\ pc = "predict"
    /\ output' = get_predictions(input)
    /\ pc' = "predict_done"
    /\ UNCHANGED <<idx, call, trace, base_hist, quote_hist, hist, saved, input>>

NextPredict == Predict

SpecPredict == InitPredict /\ [][NextPredict]_vars

ValidTimestamps == {ts \in DOMAIN input.series : input.series[ts].kind = "num"}

LatestValid == CHOOSE ts \in ValidTimestamps : \A u \in ValidTimestamps : u <= ts

\* C16: a failed fetch, or a result without any valid close, gives four
\* Nones; with 1 to 59 valid closes the latest valid close and a timestamp
\* are returned and both predictions are NEUTRAL.
C16_NoneOrNeutral ==
    pc = "predict_done" =>
        /\ (~input.some \/ ValidTimestamps = {}) => output = AllNone
        /\ (input.some /\ ValidTimestamps # {}
               /\ Cardinality(ValidTimestamps) < 60) =>
              /\ ~output.is_none
              /\ output.latest_rate = input.series[LatestValid].close
              /\ output.latest_timestamp \in DOMAIN input.series
              /\ output.short_term_prediction = "NEUTRAL"
              /\ output.long_term_prediction = "NEUTRAL"

C16_Witness ==
    /\ pc = "predict_done" /\ input.some
    /\ Cardinality(ValidTimestamps) = 59
    /\ input.series[1].close # input.series[59].close
    /\ ~output.is_none
    /\ output.latest_rate = Int2R(2)
    /\ output.short_term_prediction = "NEUTRAL"

\* C19 (as claimed): a returned rate comes with the timestamp of the sample
\* whose close it is, also when samples were skipped.
C19_TimestampOfReturnedRate ==
    (pc = "predict_done" /\ ~output.is_none) =>
        /\ output.latest_timestamp = LatestValid
        /\ input.series[output.latest_timestamp].kind = "num"
        /\ input.series[output.latest_timestamp].close = output.latest_rate

====
